---------------------------- MODULE Spec2Model ----------------------------
(***************************************************************************)
(* Model of eternal_zoo/models.py: the module's three top-level            *)
(* statements (the HASH_TO_MODEL literal, the MODEL_TO_HASH dict           *)
(* comprehension, the FEATURED_MODELS literal) and the catalog lookups     *)
(* that read the three module globals once the module is loaded.           *)
(*                                                                         *)
(* A Python dict is modelled where its insertion order matters (the        *)
(* forward table and the reverse map built from it) as a sequence of       *)
(* <<key, value>> items with pairwise distinct keys, in insertion order;   *)
(* the catalog, whose order nothing reads, is a function from names to     *)
(* entries, and an entry is a function from its field names to values, so  *)
(* that "field f is present" is  f \in DOMAIN entry.                       *)
(***************************************************************************)
EXTENDS Naturals, Sequences, FiniteSets, TLC

(***************************************************************************)
(* HASH_TO_MODEL, the literal of lines 1-29, in the order it is written.   *)
(***************************************************************************)
\* models.py lines 2-11
HashItems_qwen3 ==
  << <<"bafkreiacd5mwy4a5wkdmvxsk42nsupes5uf4q3dm52k36mvbhgdrez422y", "qwen3-embedding-0.6b">>,
     <<"bafkreia7nzedkxlr6tebfxvo552zq7cba6sncloxwyivfl3tpj7hl5dz5u", "qwen3-embedding-4b">>,
     <<"bafkreib6pws5dx5ur6exbhulmf35twfcizdkxvup4cklzprlvaervfz5zy", "qwen3-1.7b">>,
     <<"bafkreiekokvzioogj5hoxgxlorqvbw2ed3w4mwieium5old5jq3iubixza", "qwen3-4b">>,
     <<"bafkreid5z4lddvv4qbgdlz2nqo6eumxwetwmkpesrumisx72k3ahq73zpy", "qwen3-8b">>,
     <<"bafkreiclwlxc56ppozipczuwkmgnlrxrerrvaubc5uhvfs3g2hp3lftrwm", "qwen3-14b">>,
     <<"bafkreihq4usl2t3i6pqoilvorp4up263yieuxcqs6xznlmrig365bvww5i", "qwen3-32b">>,
     <<"bafkreieroiopteqmtbjadlnpq3qkakdu7omvtuavs2l2qbu46ijnfdo2ly", "qwen3-30b-a3b">>,
     <<"bafkreie4uj3gluik5ob2ib3cm2pt6ww7n4vqpmjnq6pas4gkkor42yuysa", "qwen3-235b-a22b">>,
     <<"bafkreib6thkvzddxkxtgkeslioreae66uef42gtxzy4wh7cyzf6fmlq3rm", "qwen3-coder-480b-a35b">> >>

\* lines 12-15 with the last name mistyped (gemma-3n-4b for gemma-3n-e4b)
HashItems_gemma_typo ==
  << <<"bafkreiaevddz5ssjnbkmdrl6dzw5sugwirzi7wput7z2ttcwnvj2wiiw5q", "gemma-3-4b">>,
     <<"bafkreic2bkjuu3fvdoxnvusdt4in6fa6lubzhtjtmcp2zvokvfjpyndakq", "gemma-3-12b">>,
     <<"bafkreihi2cbsgja5dwa5nsuixicx2x3gbcnh7gsocxbmjxegtewoq2syve", "gemma-3-27b">>,
     <<"bafkreihz3mz422vpoy7sccwj5tujkerxbjxdlmsqqf3ridxbe3m6ipnq5i", "gemma-3n-4b">> >>

\* models.py lines 12-15
HashItems_gemma ==
  << <<"bafkreiaevddz5ssjnbkmdrl6dzw5sugwirzi7wput7z2ttcwnvj2wiiw5q", "gemma-3-4b">>,
     <<"bafkreic2bkjuu3fvdoxnvusdt4in6fa6lubzhtjtmcp2zvokvfjpyndakq", "gemma-3-12b">>,
     <<"bafkreihi2cbsgja5dwa5nsuixicx2x3gbcnh7gsocxbmjxegtewoq2syve", "gemma-3-27b">>,
     <<"bafkreihz3mz422vpoy7sccwj5tujkerxbjxdlmsqqf3ridxbe3m6ipnq5i", "gemma-3n-e4b">> >>

\* models.py lines 16-22
HashItems_misc ==
  << <<"bafkreiaztifhss23cftya3bkorbsenzohol2oc3dvngo2srbbosko6gmme", "lfm2-1.2b">>,
     <<"bafkreidrdplo7mcfhrvocaa26yge6kmxmuwrexm5rffnzo5lbe6fkhjuvq", "openreasoning-nemotron-32b">>,
     <<"bafkreih4xgr5t7yc3yooz6i6usgpwhggaobspmgut4rnu42gi6cv77o4em", "devstral-small">>,
     <<"bafkreibokz6tdke7k3eozsro3hh3luyqbub7tzdawpswtt7q6bzfg36fw4", "dolphin-3.0-llama3.1-8b">>,
     <<"bafkreiclhnqcjfbbusqmg73jcwasomv7tqchkqm3fea5wwzs5vavc2wzfq", "gpt-oss-20b">>,
     <<"bafkreia4xtrb4vfsf7lblomjwh7cc3nlpci3fsqyeqpgqqflx4cnhwa3za", "gpt-oss-120b">>,
     <<"bafkreicyuuvaeavozddtpc3tajfejaxuvuw2cpfajtt6lsddo22gcqg2km", "hermes-4-70b">> >>

\* lines 23-28 with the last line copied from the one above it and only
\* its hash changed: nsfw-lab is listed under two hashes
HashItems_flux_dup ==
  << <<"bafkreiaha3sjfmv4affmi5kbu6bnayenf2avwafp3cthhar3latmfi632u", "flux-dev">>,
     <<"bafkreibks5pmc777snbo7dwk26sympe2o24tpqfedjq6gmgghwwu7iio34", "flux-schnell">>,
     <<"bafkreidbaksrogxispjejczfj36vtf5uzsbjt7irspl6kckynz5u2ugzke", "flux-dev-nsfw">>,
     <<"bafkreihiaeosw2jlyvzo7od46ihe4iwutgmppqj5d7z74g25qljlcmcikq", "flux-dev-18-loras">>,
     <<"bafkreidnd2n2sp3gw6c4iutvgdtupqa4qlpsznpjnwqmsna2ko3uhv4fce", "nsfw-lab">>,
     <<"bafkreidl2y42rs2ymhydn7gojikgv657yy73yldu3nanjsljeepen6ftsy", "nsfw-lab">> >>

\* models.py lines 23-28
HashItems_flux ==
  << <<"bafkreiaha3sjfmv4affmi5kbu6bnayenf2avwafp3cthhar3latmfi632u", "flux-dev">>,
     <<"bafkreibks5pmc777snbo7dwk26sympe2o24tpqfedjq6gmgghwwu7iio34", "flux-schnell">>,
     <<"bafkreidbaksrogxispjejczfj36vtf5uzsbjt7irspl6kckynz5u2ugzke", "flux-dev-nsfw">>,
     <<"bafkreihiaeosw2jlyvzo7od46ihe4iwutgmppqj5d7z74g25qljlcmcikq", "flux-dev-18-loras">>,
     <<"bafkreidnd2n2sp3gw6c4iutvgdtupqa4qlpsznpjnwqmsna2ko3uhv4fce", "nsfw-lab">>,
     <<"bafkreidl2y42rs2ymhydn7gojikgv657yy73yldu3nanjsljeepen6ftsy", "lora-lab">> >>

HASH_TO_MODEL ==
  HashItems_qwen3 \o HashItems_gemma \o HashItems_misc \o HashItems_flux

(***************************************************************************)
(* Python dict semantics used by line 31.                                  *)
(***************************************************************************)
\* dict.keys()
Keys(d) == {d[i][1] : i \in DOMAIN d}

\* dict.values()
Values(d) == {d[i][2] : i \in DOMAIN d}

\* d[k] for a key that is present
Lookup(d, k) == d[CHOOSE i \in DOMAIN d : d[i][1] = k][2]

\* d[k] = v : a present key keeps its position and takes the new value
\* (the old value is overwritten); an absent key is appended.
SetItem(d, k, v) ==
  IF k \in Keys(d)
    THEN [i \in DOMAIN d |-> IF d[i][1] = k THEN <<k, v>> ELSE d[i]]
    ELSE Append(d, <<k, v>>)

\* The comprehension's loop: for hash, model in items: acc[model] = hash
RECURSIVE ComprehendItems(_, _)
ComprehendItems(items, acc) ==
  IF items = <<>>
    THEN acc
    ELSE ComprehendItems(Tail(items),
                         SetItem(acc, Head(items)[2], Head(items)[1]))

\* A comprehension that stores the model where the hash belongs:
\* {model: model for hash, model in table.items()}
RECURSIVE ComprehendItems_value(_, _)
ComprehendItems_value(items, acc) ==
  IF items = <<>>
    THEN acc
    ELSE ComprehendItems_value(Tail(items),
                               SetItem(acc, Head(items)[2], Head(items)[2]))

MODEL_TO_HASH_value(table) == ComprehendItems_value(table, <<>>)

\* A comprehension that is not inverted:
\* {hash: model for hash, model in table.items()}
MODEL_TO_HASH_forward(table) == table

\* line 31: {model: hash for hash, model in HASH_TO_MODEL.items()}
MODEL_TO_HASH(table) == ComprehendItems(table, <<>>)

(***************************************************************************)
(* FEATURED_MODELS, the literal of lines 33-248, one definition per entry. *)
(***************************************************************************)
\* models.py lines 34-39
qwen3_embedding_0_6b ==
  [repo |-> "Qwen/Qwen3-Embedding-0.6B-GGUF", model |-> "Qwen3-Embedding-0.6B-Q8_0.gguf", task |-> "embed", backend |-> "gguf"]

\* models.py lines 40-45
qwen3_embedding_4b ==
  [repo |-> "Qwen/Qwen3-Embedding-4B-GGUF", model |-> "Qwen3-Embedding-4B-Q8_0.gguf", task |-> "embed", backend |-> "gguf"]

\* models.py lines 46-51
qwen3_1_7b ==
  [repo |-> "Qwen/Qwen3-1.7B-GGUF", model |-> "Qwen3-1.7B-Q8_0.gguf", task |-> "chat", backend |-> "gguf"]

\* models.py lines 52-57
qwen3_4b ==
  [repo |-> "Qwen/Qwen3-4B-GGUF", model |-> "Qwen3-4B-Q8_0.gguf", task |-> "chat", backend |-> "gguf"]

\* models.py lines 58-63
qwen3_8b ==
  [repo |-> "Qwen/Qwen3-8B-GGUF", model |-> "Qwen3-8B-Q8_0.gguf", task |-> "chat", backend |-> "gguf"]

\* models.py lines 64-69
qwen3_14b ==
  [repo |-> "Qwen/Qwen3-14B-GGUF", model |-> "Qwen3-14B-Q8_0.gguf", task |-> "chat", backend |-> "gguf"]

\* models.py lines 70-75
qwen3_32b ==
  [repo |-> "Qwen/Qwen3-32B-GGUF", model |-> "Qwen3-32B-Q8_0.gguf", task |-> "chat", backend |-> "gguf"]

\* models.py lines 76-81
qwen3_30b_a3b ==
  [repo |-> "Qwen/Qwen3-30B-GGUF", model |-> "Qwen3-30B-A3B-Q8_0.gguf", task |-> "chat", backend |-> "gguf"]

\* models.py lines 82-87
qwen3_30b_a3b_instruct_2507 ==
  [repo |-> "unsloth/Qwen3-30B-A3B-Instruct-2507-GGUF", model |-> "Qwen3-30B-A3B-Instruct-2507-Q8_0.gguf", task |-> "chat", backend |-> "gguf"]

\* models.py lines 88-93
qwen3_30b_a3b_thinking_2507 ==
  [repo |-> "unsloth/Qwen3-30B-A3B-Thinking-2507-GGUF", model |-> "Qwen3-30B-A3B-Thinking-2507-Q8_0.gguf", task |-> "chat", backend |-> "gguf"]

\* models.py lines 94-99
qwen3_coder_30b_a3b_instruct ==
  [repo |-> "unsloth/Qwen3-Coder-30B-A3B-Instruct-GGUF", model |-> "Qwen3-Coder-30B-A3B-Instruct-Q8_0.gguf", task |-> "chat", backend |-> "gguf"]

\* models.py lines 100-105
qwen3_235b_a22b ==
  [repo |-> "unsloth/Qwen3-235B-A22B-Instruct-2507-GGUF", pattern |-> "Q4_K_M", task |-> "chat", backend |-> "gguf"]

\* models.py lines 106-111
qwen3_coder_480b_a35b ==
  [repo |-> "unsloth/Qwen3-Coder-480B-A35B-Instruct-GGUF", pattern |-> "Q4_K_M", task |-> "chat", backend |-> "gguf"]

\* models.py lines 112-118
gemma_3_4b ==
  [repo |-> "lmstudio-community/gemma-3-4B-it-qat-GGUF", model |-> "gemma-3-4B-it-QAT-Q4_0.gguf", projector |-> "mmproj-model-f16.gguf", task |-> "chat", backend |-> "gguf"]

\* models.py lines 119-125
gemma_3_12b ==
  [repo |-> "lmstudio-community/gemma-3-12B-it-qat-GGUF", model |-> "gemma-3-12B-it-QAT-Q4_0.gguf", projector |-> "mmproj-model-f16.gguf", task |-> "chat", backend |-> "gguf"]

\* models.py lines 126-132
gemma_3_27b ==
  [repo |-> "lmstudio-community/gemma-3-27B-it-qat-GGUF", model |-> "gemma-3-27B-it-QAT-Q4_0.gguf", projector |-> "mmproj-model-f16.gguf", task |-> "chat", backend |-> "gguf"]

\* models.py lines 133-138
gemma_3n_e4b ==
  [repo |-> "unsloth/gemma-3n-E4B-it-GGUF", model |-> "gemma-3n-E4B-it-Q8_0.gguf", task |-> "chat", backend |-> "gguf"]

\* models.py lines 139-144
lfm2_1_2b ==
  [repo |-> "LiquidAI/LFM2-1.2B-GGUF", model |-> "LFM2-1.2B-Q8_0.gguf", task |-> "chat", backend |-> "gguf"]

\* models.py lines 145-150
openreasoning_nemotron_32b ==
  [repo |-> "lmstudio-community/OpenReasoning-Nemotron-32B-GGUF", model |-> "OpenReasoning-Nemotron-32B-Q8_0.gguf", task |-> "chat", backend |-> "gguf"]

\* models.py lines 151-156
devstral_small ==
  [repo |-> "mistralai/Devstral-Small-2507_gguf", model |-> "Devstral-Small-2507-Q8_0.gguf", task |-> "chat", backend |-> "gguf"]

\* models.py lines 157-162
dolphin_3_0_llama3_1_8b ==
  [repo |-> "dphn/Dolphin3.0-Llama3.1-8B-GGUF", model |-> "Dolphin3.0-Llama3.1-8B-Q8_0.gguf", task |-> "chat", backend |-> "gguf"]

\* models.py lines 163-168
gpt_oss_20b ==
  [repo |-> "bartowski/openai_gpt-oss-20b-GGUF-MXFP4-Experimental", model |-> "openai_gpt-oss-20b-MXFP4.gguf", task |-> "chat", backend |-> "gguf"]

\* lines 169-174 with an exact file name added beside the pattern
gpt_oss_120b_both ==
  [repo |-> "ggml-org/gpt-oss-120b-GGUF", model |-> "gpt-oss-120b-mxfp4.gguf", pattern |-> "mxfp4", task |-> "chat", backend |-> "gguf"]

\* models.py lines 169-174
gpt_oss_120b ==
  [repo |-> "ggml-org/gpt-oss-120b-GGUF", pattern |-> "mxfp4", task |-> "chat", backend |-> "gguf"]

\* models.py lines 175-179
gpt_oss_20b_mlx ==
  ("hf-repo" :> "lmstudio-community/gpt-oss-20b-GGUF") @@ [task |-> "chat", backend |-> "mlx-lm"]

\* models.py lines 180-185
hermes_4_14b ==
  [repo |-> "bartowski/NousResearch_Hermes-4-14B-GGUF", model |-> "NousResearch_Hermes-4-14B-Q4_K_M.gguf", task |-> "chat", backend |-> "gguf"]

\* models.py lines 186-191
hermes_4_70b ==
  [repo |-> "bartowski/NousResearch_Hermes-4-70B-GGUF", model |-> "NousResearch_Hermes-4-14B-Q8_0.gguf", task |-> "chat", backend |-> "gguf"]

\* models.py lines 192-197
hermes_4_405b ==
  [repo |-> "lmstudio-community/Hermes-4-405B-GGUF", pattern |-> "Q4_K_M", task |-> "chat", backend |-> "gguf"]

\* models.py lines 198-203
flux_dev ==
  [repo |-> "NikolaSigmoid/FLUX.1-dev", task |-> "image-generation", architecture |-> "flux-dev", backend |-> "mlx-flux"]

\* models.py lines 204-209
flux_schnell ==
  [repo |-> "NikolaSigmoid/FLUX.1-schnell", task |-> "image-generation", architecture |-> "flux-schnell", backend |-> "mlx-flux"]

\* lines 210-215 with the architecture line left out
flux_krea_dev_noarch ==
  [repo |-> "NikolaSigmoid/FLUX.1-Krea-dev", task |-> "image-generation", backend |-> "mlx-flux"]

\* models.py lines 210-215
flux_krea_dev ==
  [repo |-> "NikolaSigmoid/FLUX.1-Krea-dev", task |-> "image-generation", architecture |-> "flux-dev", backend |-> "mlx-flux"]

\* models.py lines 216-223
flux_dev_nsfw ==
  [repo |-> "NikolaSigmoid/FLUX.1-dev-NSFW-Master", task |-> "image-generation", lora |-> TRUE, base_model |-> "flux-dev", architecture |-> "flux-dev", backend |-> "mlx-flux"]

\* models.py lines 224-231
flux_dev_18_loras ==
  [repo |-> "NikolaSigmoid/FLUX.1-dev-18-loras", task |-> "image-generation", lora |-> TRUE, base_model |-> "flux-dev", architecture |-> "flux-dev", backend |-> "mlx-flux"]

\* lines 232-239 with base_model mistyped (flux_schnell for flux-schnell)
nsfw_lab_dangling ==
  [repo |-> "NikolaSigmoid/NSFW-Lab", task |-> "image-generation", lora |-> TRUE, base_model |-> "flux_schnell", architecture |-> "flux-schnell", backend |-> "mlx-flux"]

\* models.py lines 232-239
nsfw_lab ==
  [repo |-> "NikolaSigmoid/NSFW-Lab", task |-> "image-generation", lora |-> TRUE, base_model |-> "flux-schnell", architecture |-> "flux-schnell", backend |-> "mlx-flux"]

\* lines 240-247 with the architecture of another base model
lora_lab_arch ==
  [repo |-> "NikolaSigmoid/lora-lab", task |-> "image-generation", lora |-> TRUE, base_model |-> "flux-dev", architecture |-> "flux-schnell", backend |-> "mlx-flux"]

\* models.py lines 240-247
lora_lab ==
  [repo |-> "NikolaSigmoid/lora-lab", task |-> "image-generation", lora |-> TRUE, base_model |-> "flux-dev", architecture |-> "flux-dev", backend |-> "mlx-flux"]

FEATURED_MODELS ==
  ("qwen3-embedding-0.6b" :> qwen3_embedding_0_6b)
  @@ ("qwen3-embedding-4b" :> qwen3_embedding_4b)
  @@ ("qwen3-1.7b" :> qwen3_1_7b)
  @@ ("qwen3-4b" :> qwen3_4b)
  @@ ("qwen3-8b" :> qwen3_8b)
  @@ ("qwen3-14b" :> qwen3_14b)
  @@ ("qwen3-32b" :> qwen3_32b)
  @@ ("qwen3-30b-a3b" :> qwen3_30b_a3b)
  @@ ("qwen3-30b-a3b-instruct-2507" :> qwen3_30b_a3b_instruct_2507)
  @@ ("qwen3-30b-a3b-thinking-2507" :> qwen3_30b_a3b_thinking_2507)
  @@ ("qwen3-coder-30b-a3b-instruct" :> qwen3_coder_30b_a3b_instruct)
  @@ ("qwen3-235b-a22b" :> qwen3_235b_a22b)
  @@ ("qwen3-coder-480b-a35b" :> qwen3_coder_480b_a35b)
  @@ ("gemma-3-4b" :> gemma_3_4b)
  @@ ("gemma-3-12b" :> gemma_3_12b)
  @@ ("gemma-3-27b" :> gemma_3_27b)
  @@ ("gemma-3n-e4b" :> gemma_3n_e4b)
  @@ ("lfm2-1.2b" :> lfm2_1_2b)
  @@ ("openreasoning-nemotron-32b" :> openreasoning_nemotron_32b)
  @@ ("devstral-small" :> devstral_small)
  @@ ("dolphin-3.0-llama3.1-8b" :> dolphin_3_0_llama3_1_8b)
  @@ ("gpt-oss-20b" :> gpt_oss_20b)
  @@ ("gpt-oss-120b" :> gpt_oss_120b)
  @@ ("gpt-oss-20b-mlx" :> gpt_oss_20b_mlx)
  @@ ("hermes-4-14b" :> hermes_4_14b)
  @@ ("hermes-4-70b" :> hermes_4_70b)
  @@ ("hermes-4-405b" :> hermes_4_405b)
  @@ ("flux-dev" :> flux_dev)
  @@ ("flux-schnell" :> flux_schnell)
  @@ ("flux-krea-dev" :> flux_krea_dev)
  @@ ("flux-dev-nsfw" :> flux_dev_nsfw)
  @@ ("flux-dev-18-loras" :> flux_dev_18_loras)
  @@ ("nsfw-lab" :> nsfw_lab)
  @@ ("lora-lab" :> lora_lab)

(***************************************************************************)
(* Catalog operations.  Each returns a discriminated result: either        *)
(* [kind |-> "ok", val |-> v] or [kind |-> "error", err |-> e].            *)
(***************************************************************************)
Ok(v) == [kind |-> "ok", val |-> v]

Fail(e) == [kind |-> "error", err |-> e]

Has(entry, f) == f \in DOMAIN entry

resolveHash(table, h) ==
  IF h \in Keys(table) THEN Ok(Lookup(table, h)) ELSE Fail("UnknownHash")

\* A resolveName that answers a name without a hash with an empty hash
resolveName_default(reverse, n) ==
  IF n \in Keys(reverse) THEN Ok(Lookup(reverse, n)) ELSE Ok("")

resolveName(reverse, n) ==
  IF n \in Keys(reverse) THEN Ok(Lookup(reverse, n)) ELSE Fail("NoHashForModel")

get(catalog, n) ==
  IF n \in DOMAIN catalog THEN Ok(catalog[n]) ELSE Fail("UnknownModel")

isLora(entry) == Has(entry, "lora") /\ entry["lora"] = TRUE

baseOf(catalog, entry) ==
  IF Has(entry, "base_model") /\ entry["base_model"] \in DOMAIN catalog
    THEN Ok(catalog[entry["base_model"]])
    ELSE Fail("DanglingBaseModel")

resolveWeightSelector(entry) ==
  CASE Has(entry, "model") /\ ~Has(entry, "pattern") ->
         Ok(<<"exact", entry["model"]>>)
    [] Has(entry, "pattern") /\ ~Has(entry, "model") ->
         Ok(<<"pattern", entry["pattern"]>>)
    [] OTHER -> Fail("ConflictingSelector")

\* The violations of one entry, as <<kind, name, field>>.
Missing(n, e, f) ==
  IF Has(e, f) THEN {} ELSE {<<"MissingRequiredField", n, f>>}

BadTask(n, e, legal) ==
  IF Has(e, "task") /\ e["task"] \in legal
    THEN {} ELSE {<<"MissingRequiredField", n, "task">>}

BackendViolations(n, e) ==
  IF ~Has(e, "backend") THEN {<<"MissingRequiredField", n, "backend">>}
  ELSE CASE e["backend"] = "gguf" ->
              Missing(n, e, "repo") \cup BadTask(n, e, {"chat", "embed"})
              \cup (IF Has(e, "model") = Has(e, "pattern")
                      THEN {<<"ConflictingSelector", n, "model/pattern">>}
                      ELSE {})
         [] e["backend"] = "mlx-lm" ->
              Missing(n, e, "hf-repo")
              \cup BadTask(n, e, {"chat", "embed", "image-generation"})
         [] e["backend"] = "mlx-flux" ->
              Missing(n, e, "repo") \cup Missing(n, e, "architecture")
              \cup BadTask(n, e, {"image-generation"})
         [] OTHER -> {<<"MissingRequiredField", n, "backend">>}

TaskViolations(n, e) ==
  IF Has(e, "task") /\ e["task"] = "image-generation"
    THEN Missing(n, e, "architecture") ELSE {}

LoraViolations(catalog, n, e) ==
  IF ~isLora(e) THEN {}
  ELSE IF ~Has(e, "base_model") THEN {<<"MissingRequiredField", n, "base_model">>}
  ELSE IF e["base_model"] \notin DOMAIN catalog
            \/ isLora(catalog[e["base_model"]])
         THEN {<<"DanglingBaseModel", n, "base_model">>}
  ELSE IF ~Has(e, "architecture")
            \/ ~Has(catalog[e["base_model"]], "architecture")
            \/ e["architecture"] # catalog[e["base_model"]]["architecture"]
         THEN {<<"MissingRequiredField", n, "architecture">>}
  ELSE {}

validate(catalog) ==
  UNION {BackendViolations(n, catalog[n]) \cup TaskViolations(n, catalog[n])
           \cup LoraViolations(catalog, n, catalog[n]) : n \in DOMAIN catalog}

(***************************************************************************)
(* Bounds and pools of the arbitrary forward tables of SpecAny.            *)
(***************************************************************************)
MaxLen == 3

AnyHashes == {"bafk-a", "bafk-b", "bafk-c", "bafk-d"}

AnyNames == {"flux-dev", "lora-lab", "unlisted-model"}

\* Every dict of at most MaxLen items: pairwise distinct keys, any values.
AnyTables ==
  {t \in UNION {[1..k -> AnyHashes \X AnyNames] : k \in 0..MaxLen} :
     \A i, j \in DOMAIN t : i # j => t[i][1] # t[j][1]}

\* Lookup keys that no table registers.
UnregisteredHashes == {"bafkreinotregistered", ""}

UnregisteredNames == {"not-a-model", ""}

(***************************************************************************)
(* State: the position in the module's top-level code, the three module    *)
(* globals (an unbound global is the empty dict), and the last lookup.     *)
(***************************************************************************)
VARIABLES pc, hash_to_model, model_to_hash, featured_models, result

vars == <<pc, hash_to_model, model_to_hash, featured_models, result>>

NoResult == [op |-> "none", arg |-> "", out |-> [kind |-> "none"]]

\* After lines 1-29 have run on the shipped literal.
Init ==
  /\ pc = "line31"
  /\ hash_to_model = HASH_TO_MODEL
  /\ model_to_hash = <<>>
  /\ featured_models = <<>>
  /\ result = NoResult

\* After lines 1-29 have run on any forward table.
InitAny ==
  /\ pc = "line31"
  /\ hash_to_model \in AnyTables
  /\ model_to_hash = <<>>
  /\ featured_models = <<>>
  /\ result = NoResult

\* line 31
BuildModelToHash ==
  /\ pc = "line31"
  /\ model_to_hash' = MODEL_TO_HASH(hash_to_model)
  /\ pc' = "line33"
  /\ UNCHANGED <<hash_to_model, featured_models, result>>

\* lines 33-248
BindFeaturedModels ==
  /\ pc = "line33"
  /\ featured_models' = FEATURED_MODELS
  /\ pc' = "loaded"
  /\ UNCHANGED <<hash_to_model, model_to_hash, result>>

HashQueries == Keys(hash_to_model) \cup UnregisteredHashes

NameQueries ==
  DOMAIN featured_models \cup Values(hash_to_model) \cup UnregisteredNames

ResolveHash ==
  /\ pc = "loaded"
  /\ \E h \in HashQueries :
       result' = [op |-> "resolveHash", arg |-> h,
                  out |-> resolveHash(hash_to_model, h)]
  /\ UNCHANGED <<pc, hash_to_model, model_to_hash, featured_models>>

ResolveName ==
  /\ pc = "loaded"
  /\ \E n \in NameQueries :
       result' = [op |-> "resolveName", arg |-> n,
                  out |-> resolveName(model_to_hash, n)]
  /\ UNCHANGED <<pc, hash_to_model, model_to_hash, featured_models>>

Get ==
  /\ pc = "loaded"
  /\ \E n \in NameQueries :
       result' = [op |-> "get", arg |-> n, out |-> get(featured_models, n)]
  /\ UNCHANGED <<pc, hash_to_model, model_to_hash, featured_models>>

IsLora ==
  /\ pc = "loaded"
  /\ \E n \in DOMAIN featured_models :
       result' = [op |-> "isLora", arg |-> n,
                  out |-> Ok(isLora(featured_models[n]))]
  /\ UNCHANGED <<pc, hash_to_model, model_to_hash, featured_models>>

BaseOf ==
  /\ pc = "loaded"
  /\ \E n \in DOMAIN featured_models :
       /\ isLora(featured_models[n])
       /\ result' = [op |-> "baseOf", arg |-> n,
                     out |-> baseOf(featured_models, featured_models[n])]
  /\ UNCHANGED <<pc, hash_to_model, model_to_hash, featured_models>>

ResolveWeightSelector ==
  /\ pc = "loaded"
  /\ \E n \in DOMAIN featured_models :
       result' = [op |-> "resolveWeightSelector", arg |-> n,
                  out |-> resolveWeightSelector(featured_models[n])]
  /\ UNCHANGED <<pc, hash_to_model, model_to_hash, featured_models>>

Validate ==
  /\ pc = "loaded"
  /\ result' = [op |-> "validate", arg |-> "",
                out |-> Ok(validate(featured_models))]
  /\ UNCHANGED <<pc, hash_to_model, model_to_hash, featured_models>>

Next ==
  \/ BuildModelToHash
  \/ BindFeaturedModels
  \/ ResolveHash
  \/ ResolveName
  \/ Get
  \/ IsLora
  \/ BaseOf
  \/ ResolveWeightSelector
  \/ Validate

Spec == Init /\ [][Next]_vars

\* The module's load and the identity lookups, over any forward table.
NextAny ==
  \/ BuildModelToHash
  \/ BindFeaturedModels
  \/ ResolveHash
  \/ ResolveName

SpecAny == InitAny /\ [][NextAny]_vars

(***************************************************************************)
(* Properties.                                                             *)
(***************************************************************************)
\* Line 31 has run: model_to_hash holds the comprehension's value.
ReverseBuilt == pc # "line31"

Loaded == pc = "loaded"

\* Some model name is the value of two different hashes of the table.
HasDuplicateName(table) ==
  \E i, j \in DOMAIN table : i # j /\ table[i][2] = table[j][2]

IsGguf(e) == Has(e, "backend") /\ e["backend"] = "gguf"

\* C1: round trip.  Once the reverse map is built, every hash h of
\* HASH_TO_MODEL resolves to a name n that is a key of MODEL_TO_HASH, and
\* MODEL_TO_HASH[n] is h again; neither lookup fails.
C1_RoundTrip ==
  ReverseBuilt =>
    \A h \in Keys(hash_to_model) :
      LET n == Lookup(hash_to_model, h)
      IN  /\ n \in Keys(model_to_hash)
          /\ Lookup(model_to_hash, n) = h
          /\ resolveName(model_to_hash, resolveHash(hash_to_model, h).val)
               = Ok(h)

\* C1 witness: the shipped example hash has been resolved to
\* qwen3-embedding-0.6b and the reverse map takes that name back to it.
C1_Witness ==
  /\ result.op = "resolveHash"
  /\ result.arg = "bafkreiacd5mwy4a5wkdmvxsk42nsupes5uf4q3dm52k36mvbhgdrez422y"
  /\ result.out = Ok("qwen3-embedding-0.6b")
  /\ Lookup(model_to_hash, "qwen3-embedding-0.6b") = result.arg

\* C2: the shipped mapping is a bijection.  No two hashes of HASH_TO_MODEL
\* share a name, no two names of MODEL_TO_HASH share a hash, and
\* MODEL_TO_HASH has exactly as many entries as HASH_TO_MODEL.
C2_Bijection ==
  ReverseBuilt =>
    /\ ~HasDuplicateName(hash_to_model)
    /\ ~HasDuplicateName(model_to_hash)
    /\ Cardinality(Keys(model_to_hash)) = Cardinality(Keys(hash_to_model))
    /\ Len(model_to_hash) = Len(hash_to_model)

\* C2 witness: the module is loaded and the reverse map holds one entry
\* for each of the 27 shipped hashes.
C2_Witness ==
  /\ Loaded
  /\ Len(hash_to_model) = 27
  /\ Cardinality(Keys(model_to_hash)) = 27

\* C3: fail fast on a duplicate model name.  Line 31 never yields a reverse
\* map from a forward table in which one name is the value of two hashes
\* (initialization aborts instead), so no hash of the forward table is ever
\* missing from the reverse map because another hash overwrote it.
C3_FailFastOnDuplicateName ==
  ReverseBuilt =>
    /\ ~HasDuplicateName(hash_to_model)
    /\ Keys(hash_to_model) \subseteq Values(model_to_hash)

\* C4: every hash resolves into the catalog.  Once the module is loaded,
\* the name of every hash of HASH_TO_MODEL is a key of FEATURED_MODELS, and
\* get on such a name does not fail.
C4_HashesResolveIntoCatalog ==
  Loaded =>
    /\ \A h \in Keys(hash_to_model) :
         /\ Lookup(hash_to_model, h) \in DOMAIN featured_models
         /\ get(featured_models, resolveHash(hash_to_model, h).val).kind = "ok"
    /\ (result.op = "get" /\ result.arg \in Values(hash_to_model))
         => result.out.kind = "ok"

\* C4 witness: get has returned the entry of a name that a hash resolves
\* to, while the catalog also holds a name no hash resolves to.
C4_Witness ==
  /\ result.op = "get"
  /\ result.arg = "lora-lab"
  /\ result.arg \in Values(hash_to_model)
  /\ result.out.kind = "ok"
  /\ "gpt-oss-20b-mlx" \in DOMAIN featured_models \ Values(hash_to_model)

\* C5: LoRA references resolve in one step.  Every entry of FEATURED_MODELS
\* with lora = true has a base_model that is a key of FEATURED_MODELS and
\* names an entry that is not itself a LoRA entry; baseOf on a LoRA entry
\* never fails and returns a non-LoRA entry.
C5_LoraBaseIsStandalone ==
  Loaded =>
    /\ \A n \in DOMAIN featured_models :
         isLora(featured_models[n]) =>
           /\ Has(featured_models[n], "base_model")
           /\ featured_models[n]["base_model"] \in DOMAIN featured_models
           /\ ~isLora(featured_models[featured_models[n]["base_model"]])
    /\ result.op = "baseOf" =>
         /\ result.out.kind = "ok"
         /\ ~isLora(result.out.val)

\* C5 witness: baseOf on flux-dev-nsfw has returned the flux-dev entry.
C5_Witness ==
  /\ result.op = "baseOf"
  /\ result.arg = "flux-dev-nsfw"
  /\ featured_models["flux-dev-nsfw"]["base_model"] = "flux-dev"
  /\ result.out = Ok(featured_models["flux-dev"])
  /\ ~Has(result.out.val, "lora")

\* C6: every gguf entry of FEATURED_MODELS has a repo, a task that is chat
\* or embed, and exactly one of model and pattern; resolveWeightSelector
\* on a gguf entry yields an exact file name or a pattern, never an error.
C6_GgufSelector ==
  Loaded =>
    /\ \A n \in DOMAIN featured_models :
         IsGguf(featured_models[n]) =>
           /\ Has(featured_models[n], "repo")
           /\ Has(featured_models[n], "task")
           /\ featured_models[n]["task"] \in {"chat", "embed"}
           /\ Has(featured_models[n], "model")
                # Has(featured_models[n], "pattern")
    /\ (result.op = "resolveWeightSelector"
          /\ IsGguf(featured_models[result.arg]))
         => /\ result.out.kind = "ok"
            /\ result.out.val[1] \in {"exact", "pattern"}

\* C6 witness: resolveWeightSelector has returned the pattern of a gguf
\* entry that names no exact file.
C6_Witness ==
  /\ result.op = "resolveWeightSelector"
  /\ result.arg = "qwen3-235b-a22b"
  /\ IsGguf(featured_models[result.arg])
  /\ result.out = Ok(<<"pattern", "Q4_K_M">>)

\* C7: every image-generation entry of FEATURED_MODELS has an architecture,
\* and every mlx-flux entry has task image-generation, an architecture and
\* a repo.
C7_ImageGenerationFields ==
  Loaded =>
    \A n \in DOMAIN featured_models :
      LET e == featured_models[n]
      IN  /\ (Has(e, "task") /\ e["task"] = "image-generation")
                => Has(e, "architecture")
          /\ (Has(e, "backend") /\ e["backend"] = "mlx-flux")
                => /\ Has(e, "task")
                   /\ e["task"] = "image-generation"
                   /\ Has(e, "architecture")
                   /\ Has(e, "repo")

\* C7 witness: get has returned an mlx-flux image-generation entry, with
\* its architecture.
C7_Witness ==
  /\ result.op = "get"
  /\ result.arg = "flux-krea-dev"
  /\ result.out.kind = "ok"
  /\ result.out.val["backend"] = "mlx-flux"
  /\ result.out.val["task"] = "image-generation"
  /\ result.out.val["architecture"] = "flux-dev"

\* C8: lookups of unregistered keys fail explicitly.  resolveHash on a
\* string that is no key of HASH_TO_MODEL is the error UnknownHash, get on
\* a string that is no key of FEATURED_MODELS is the error UnknownModel,
\* resolveName on a name that is no key of MODEL_TO_HASH (gpt-oss-20b-mlx
\* among them) is the error NoHashForModel; an error carries no value.
C8_UnregisteredLookupsFail ==
  /\ (result.op = "resolveHash" /\ result.arg \notin Keys(hash_to_model))
       => result.out = Fail("UnknownHash")
  /\ (result.op = "get" /\ result.arg \notin DOMAIN featured_models)
       => result.out = Fail("UnknownModel")
  /\ (result.op = "resolveName" /\ result.arg \notin Keys(model_to_hash))
       => result.out = Fail("NoHashForModel")
  /\ (result.op = "resolveName" /\ result.arg = "gpt-oss-20b-mlx")
       => result.out = Fail("NoHashForModel")
  /\ result.op \in {"resolveHash", "get", "resolveName"}
       => (result.out.kind = "error" <=> ~Has(result.out, "val"))

\* C8 witness: resolveName on the catalog name gpt-oss-20b-mlx, which has
\* no hash, has failed with NoHashForModel.
C8_Witness ==
  /\ result.op = "resolveName"
  /\ result.arg = "gpt-oss-20b-mlx"
  /\ result.arg \in DOMAIN featured_models
  /\ result.out.kind = "error"
  /\ result.out.err = "NoHashForModel"

\* C9: validate on the shipped tables returns no violation.
C9_ValidateIsEmpty ==
  /\ Loaded => validate(featured_models) = {}
  /\ result.op = "validate" => result.out = Ok({})

\* C9 witness: validate has run over the loaded catalog, LoRA entries and
\* the mlx-lm entry included.
C9_Witness ==
  /\ result.op = "validate"
  /\ result.out.kind = "ok"
  /\ \E n \in DOMAIN featured_models : isLora(featured_models[n])
  /\ Has(featured_models["gpt-oss-20b-mlx"], "hf-repo")

\* C10: the reverse map is consistent with the forward table it is built
\* from, injective or not: its keys are exactly the forward table's
\* values, it is a dict (no key twice), and the forward table maps the
\* hash of every name of the reverse map back to that name.
C10_ReverseConsistent ==
  ReverseBuilt =>
    /\ Keys(model_to_hash) = Values(hash_to_model)
    /\ Cardinality(Keys(model_to_hash)) = Len(model_to_hash)
    /\ \A n \in Keys(model_to_hash) :
         /\ Lookup(model_to_hash, n) \in Keys(hash_to_model)
         /\ Lookup(hash_to_model, Lookup(model_to_hash, n)) = n

\* C10 witness: the reverse map has been built from a forward table of
\* three hashes, two of which name the same model.
C10_Witness ==
  /\ ReverseBuilt
  /\ Len(hash_to_model) >= 3
  /\ HasDuplicateName(hash_to_model)
  /\ Len(model_to_hash) < Len(hash_to_model)

=============================================================================
